---- MODULE Spec2Model ----
(***************************************************************************)
(* A model of the expense service of ApiTask.py: one table "expenses" in   *)
(* SQLite and six request handlers.                                        *)
(*                                                                         *)
(* Spec      one request at a time (every handler runs to completion).     *)
(* SpecConc  requests on one row running concurrently; a handler's initial *)
(*           read, its commit and its refresh are separate steps.          *)
(*                                                                         *)
(* A nullable value is a set: {} is NULL / None, {v} is the value v.       *)
(* Amounts are small integers, which a Float column and SUM() represent    *)
(* exactly, so sums in the model are the sums the storage computes.        *)
(* Dates are day numbers.                                                  *)
(***************************************************************************)
EXTENDS Integers, Sequences, FiniteSets, TLC

\* Largest id the model lets the storage assign.
MaxId == 2

Titles == {"Lunch"}
Categories == {"Food", "Transport"}
Amounts == {1, 2}
Dates == {1, 2}

NULL == {}
Some(v) == {v}
Val(o) == CHOOSE v \in o : TRUE
Opt(S) == {NULL} \cup {{v} : v \in S}

Ids == 1..MaxId

\* class Expense: the columns besides the primary key; none is NOT NULL.
Fields == {"title", "category", "amount", "date"}

FieldValues(f) ==
    CASE f = "title" -> Titles
      [] f = "category" -> Categories
      [] f = "amount" -> Amounts
      [] f = "date" -> Dates

\* Every field of ExpenseUpdate is Optional; the requests of the model set to
\* None the fields named here, and the others to values only.
NoneFields == {"title", "category"}

\* The values the requests of the model set a field to.

Values(f) ==
    IF f \in NoneFields THEN Opt(FieldValues(f))
    ELSE {{v} : v \in FieldValues(f)}

\* class ExpenseCreate: title, category and amount are required and typed
\* (never None); date is optional.
ExpenseCreate == [title : Titles, category : Categories,
                  amount : Amounts, date : Opt(Dates)]

\* class ExpenseUpdate: each field is unset, or set to None or to a value.
\* The request is the function from the fields that are set to what they
\* are set to: dict(exclude_unset=True).
ExpenseUpdate ==
    {[f \in S |-> row[f]] :
        S \in SUBSET Fields,
        row \in [title : Values("title"), category : Values("category"),
                 amount : Values("amount"), date : Values("date")]}

\* class ExpenseResponse: id: int, title: str, category: str, amount: float,
\* date: date. A row with a None column does not validate.
ExpenseResponse(row) == \A f \in Fields : row[f] # NULL

\* class SummaryResponse: category: str, total_amount: float.
SummaryResponse(s) == s.category # NULL /\ s.total_amount # NULL

\* The record a handler returns for a row: the ORM object with its id.
Record(id, row) ==
    [id |-> id, title |-> row.title, category |-> row.category,
     amount |-> row.amount, date |-> row.date]

VARIABLES
    table,        \* the expenses table: id -> row
    req,          \* the request being served (op "none": none is)
    resp,         \* its response: status and body
    created,      \* the ids returned by creates so far
    justDeleted,  \* the id the request before this one deleted, or 0
    creq,         \* SpecConc: the request of each concurrent handler
    pc,           \* SpecConc: where each handler is
    loaded,       \* SpecConc: the row each handler's first query loaded
    ret,          \* SpecConc: the response of each handler
    overwritten   \* SpecConc: per handler, the fields of the row that others
                  \* have written since its first query

seqvars == <<req, resp, created, justDeleted>>
concvars == <<creq, pc, loaded, ret, overwritten>>
vars == <<table, req, resp, created, justDeleted, creq, pc, loaded, ret, overwritten>>

Max(S) == CHOOSE m \in S : \A x \in S : x <= m

\* The id SQLite gives a new row of a table with INTEGER PRIMARY KEY and no
\* AUTOINCREMENT: one more than the largest id in the table.
NextRowid(t) == IF DOMAIN t = {} THEN 1 ELSE Max(DOMAIN t) + 1

Insert(t, id, row) == [i \in DOMAIN t \cup {id} |-> IF i = id THEN row ELSE t[i]]

Remove(t, id) == [i \in DOMAIN t \ {id} |-> t[i]]

Response(t, status, body) == [table |-> t, status |-> status, body |-> body]

\* response_model validation of a single returned row.
RowResponse(t, status, id) ==
    IF ExpenseResponse(t[id])
    THEN Response(t, status, <<Record(id, t[id])>>)
    ELSE Response(t, 500, <<>>)

\* A variant that returns the row already stored with the same content.
create_expense_dedup(t, expense, today) ==
    LET new_expense == [title |-> Some(expense.title),
                        category |-> Some(expense.category),
                        amount |-> Some(expense.amount),
                        date |-> IF expense.date # NULL THEN expense.date
                                 ELSE Some(today)]
        same == {i \in DOMAIN t : t[i] = new_expense}
    IN IF same # {} THEN RowResponse(t, 201, CHOOSE i \in same : TRUE)
       ELSE RowResponse(Insert(t, NextRowid(t), new_expense), 201, NextRowid(t))

create_expense(t, expense, today) ==
    LET id == NextRowid(t)
        new_expense == [title |-> Some(expense.title),
                        category |-> Some(expense.category),
                        amount |-> Some(expense.amount),
                        date |-> IF expense.date # NULL THEN expense.date
                                 ELSE Some(today)]
    IN RowResponse(Insert(t, id, new_expense), 201, id)

get_expense_by_id(t, expense_id) ==
    IF expense_id \notin DOMAIN t
    THEN Response(t, 404, <<>>)
    ELSE RowResponse(t, 200, expense_id)

\* A variant that skips the fields set to None (exclude_none).
SetFields_exclude_none(row, expense) ==
    [f \in Fields |-> IF f \in DOMAIN expense /\ expense[f] # NULL
                      THEN expense[f] ELSE row[f]]

\* setattr for every field that is set.
SetFields(row, expense) ==
    [f \in Fields |-> IF f \in DOMAIN expense THEN expense[f] ELSE row[f]]

\* A variant that stores the row when the id is not there (an upsert).
update_expense_upsert(t, expense_id, expense) ==
    LET row == [f \in Fields |-> IF f \in DOMAIN expense THEN expense[f] ELSE NULL]
    IN RowResponse(IF expense_id \in DOMAIN t
                   THEN [t EXCEPT ![expense_id] = SetFields(@, expense)]
                   ELSE Insert(t, expense_id, row),
                   200, expense_id)

update_expense(t, expense_id, expense) ==
    IF expense_id \notin DOMAIN t
    THEN Response(t, 404, <<>>)
    ELSE RowResponse([t EXCEPT ![expense_id] = SetFields(@, expense)],
                     200, expense_id)

\* A variant that answers 204 and leaves the row (a soft delete).
delete_expense_soft(t, expense_id) ==
    IF expense_id \notin DOMAIN t
    THEN Response(t, 404, <<>>)
    ELSE Response(t, 204, <<>>)

delete_expense(t, expense_id) ==
    IF expense_id \notin DOMAIN t
    THEN Response(t, 404, <<>>)
    ELSE Response(Remove(t, expense_id), 204, <<>>)

\* The sequences that hold each element of S once.
Perms(S) ==
    {s \in [1..Cardinality(S) -> S] : \A i, j \in DOMAIN s : s[i] = s[j] => i = j}

\* ORDER BY on a nullable column, ascending: NULL sorts first.
Leq(a, b) == a = NULL \/ (b # NULL /\ Val(a) <= Val(b))

\* The category values a list request may carry.
FilterValues == Categories \cup {""}

SortValues == {"amount", "date", "title"}

\* The rows the query of get_expenses selects: `if category:` filters only
\* on a non-empty string.
Selected(t, category) ==
    IF category # NULL /\ Val(category) # ""
    THEN {i \in DOMAIN t : t[i].category = category}
    ELSE DOMAIN t

\* The orders query.all() may return them in: by the sort column when sort is
\* "amount" or "date" (rows with equal keys in any order), else by rowid.
Orders(t, ids, sort) ==
    IF sort = Some("amount") \/ sort = Some("date")
    THEN {s \in Perms(ids) :
             \A i, j \in DOMAIN s :
                 i < j => Leq(t[s[i]][Val(sort)], t[s[j]][Val(sort)])}
    ELSE {s \in Perms(ids) : \A i, j \in DOMAIN s : i < j => s[i] < s[j]}

\* The responses get_expenses may give.
get_expenses(t, category, sort) ==
    LET ids == Selected(t, category) IN
    IF ids = {} THEN {Response(t, 404, <<>>)}
    ELSE IF \E i \in ids : ~ExpenseResponse(t[i]) THEN {Response(t, 500, <<>>)}
    ELSE {Response(t, 200, [k \in DOMAIN s |-> Record(s[k], t[s[k]])]) :
             s \in Orders(t, ids, sort)}

RECURSIVE SumAmount(_, _)
SumAmount(t, ids) ==
    IF ids = {} THEN 0
    ELSE LET i == CHOOSE x \in ids : TRUE
         IN Val(t[i].amount) + SumAmount(t, ids \ {i})

\* func.sum(Expense.amount) over a group: NULL amounts are skipped, and the
\* sum of no value is NULL.
GroupTotal(t, c) ==
    LET ids == {i \in DOMAIN t : t[i].category = c /\ t[i].amount # NULL}
    IN IF ids = {} THEN NULL ELSE Some(SumAmount(t, ids))

\* The responses get_summary may give: one pair per group, the groups in any
\* order (the query has no ORDER BY).
get_summary(t) ==
    LET groups == {t[i].category : i \in DOMAIN t}
        pair(c) == [category |-> c, total_amount |-> GroupTotal(t, c)]
    IN IF groups = {} THEN {Response(t, 404, <<>>)}
       ELSE IF \E c \in groups : ~SummaryResponse(pair(c))
            THEN {Response(t, 500, <<>>)}
       ELSE {Response(t, 200, [k \in DOMAIN s |-> pair(s[k])]) : s \in Perms(groups)}

(***************************************************************************)
(* Dispatch of a GET request on a path of two segments.                    *)
(***************************************************************************)

\* The GET routes in the order the decorators register them.
GetRoutes == << [path |-> <<"expenses", "">>, handler |-> "get_expenses"],
                [path |-> <<"expenses", "{expense_id}">>,
                 handler |-> "get_expense_by_id"],
                [path |-> <<"expenses", "summary">>, handler |-> "get_summary"] >>

\* A path parameter matches any non-empty segment.
Matches(pattern, path) ==
    /\ Len(pattern) = Len(path)
    /\ \A k \in DOMAIN pattern :
           \/ pattern[k] = path[k]
           \/ pattern[k] = "{expense_id}" /\ path[k] # ""

\* The first route that matches gets the request.
Route(path) ==
    LET hits == {k \in DOMAIN GetRoutes : Matches(GetRoutes[k].path, path)}
    IN IF hits = {} THEN "none"
       ELSE GetRoutes[CHOOSE k \in hits : \A h \in hits : k <= h].handler

Decimal == <<"1", "2", "3", "4", "5", "6", "7", "8", "9">>

\* expense_id: int. The segment parsed as an integer, or 0 when it is none.
ParseInt(seg) ==
    IF \E n \in DOMAIN Decimal : Decimal[n] = seg
    THEN CHOOSE n \in DOMAIN Decimal : Decimal[n] = seg
    ELSE 0

\* The last segments of the paths requested.
Segments == {"summary"} \cup {Decimal[n] : n \in Ids}

\* The responses to GET /expenses/<seg>.
http_get(t, seg) ==
    LET handler == Route(<<"expenses", seg>>) IN
    IF handler = "get_summary" THEN get_summary(t)
    ELSE IF handler = "get_expense_by_id"
         THEN IF ParseInt(seg) = 0 THEN {Response(t, 422, <<>>)}
              ELSE {get_expense_by_id(t, ParseInt(seg))}
    ELSE IF handler = "get_expenses" THEN get_expenses(t, NULL, NULL)
    ELSE {Response(t, 404, <<>>)}

(***************************************************************************)
(* One request at a time.                                                  *)
(***************************************************************************)

\* No request is being served.
Idle == req.op = "none"

\* What a handler leaves: the table and its response.
Done(r, out) ==
    /\ table' = out.table
    /\ req' = r
    /\ resp' = [status |-> out.status, body |-> out.body]
    /\ UNCHANGED <<justDeleted, concvars>>

Init ==
    /\ table = << >>
    /\ req = [op |-> "none"]
    /\ resp = [status |-> 0, body |-> <<>>]
    /\ created = {}
    /\ justDeleted = 0
    /\ creq = << >> /\ pc = << >> /\ loaded = << >> /\ ret = << >>
    /\ overwritten = << >>

Create ==
    /\ Idle
    /\ \E expense \in ExpenseCreate, today \in Dates :
            /\ NextRowid(table) <= MaxId
            /\ Done([op |-> "create_expense", expense |-> expense, today |-> today],
                    create_expense(table, expense, today))
            /\ created' = created \cup {NextRowid(table)}

List ==
    /\ Idle
    /\ \E category \in Opt(FilterValues), sort \in Opt(SortValues) :
            \E out \in get_expenses(table, category, sort) :
                /\ Done([op |-> "get_expenses", category |-> category, sort |-> sort],
                        out)
                /\ UNCHANGED created

GetById ==
    /\ Idle
    /\ \E id \in Ids :
            /\ Done([op |-> "get_expense_by_id", id |-> id],
                    get_expense_by_id(table, id))
            /\ UNCHANGED created

Update ==
    /\ Idle
    /\ \E id \in Ids, expense \in ExpenseUpdate :
            /\ Done([op |-> "update_expense", id |-> id, expense |-> expense],
                    update_expense(table, id, expense))
            /\ UNCHANGED created

Delete ==
    /\ Idle
    /\ \E id \in Ids :
            /\ Done([op |-> "delete_expense", id |-> id], delete_expense(table, id))
            /\ UNCHANGED created

Summary ==
    /\ Idle
    /\ \E out \in get_summary(table) :
            /\ Done([op |-> "get_summary"], out)
            /\ UNCHANGED created

HttpGet ==
    /\ Idle
    /\ \E seg \in Segments :
            \E out \in http_get(table, seg) :
                /\ Done([op |-> "http_get", seg |-> seg,
                         handler |-> Route(<<"expenses", seg>>)], out)
                /\ UNCHANGED created

\* get_db: the session is closed once the response is out, and the next
\* request may come.
Close ==
    /\ req.op # "none"
    /\ req' = [op |-> "none"]
    /\ resp' = [status |-> 0, body |-> <<>>]
    /\ justDeleted' = IF req.op = "delete_expense" /\ resp.status = 204
                      THEN req.id ELSE 0
    /\ UNCHANGED <<table, created, concvars>>

Next == Close \/ Create \/ List \/ GetById \/ Update \/ Delete \/ Summary \/ HttpGet

Spec == Init /\ [][Next]_vars
(***************************************************************************)
(* The claims, one request at a time.                                      *)
(***************************************************************************)

\* The step of a handler named op.
Handles(op) == Idle /\ req'.op = op

\* C1: the id a create returns differs from the id every earlier create
\* returned, also when that record has been deleted since.
C1_IdNeverReused ==
    [][Handles("create_expense") => resp'.body[1].id \notin created]_vars

\* C2: every persisted row has non-null title, category, amount and date.
C2_NoNullColumn ==
    \A i \in DOMAIN table : \A f \in Fields : table[i][f] # NULL

\* C3: a successful update changes, in the row with that id, exactly the
\* fields present in the request to the supplied values; the absent fields,
\* the row's id and every other row are as they were.
C3_UpdateFrame ==
    [][Handles("update_expense") /\ resp'.status = 200 =>
          LET id == req'.id
              expense == req'.expense
          IN /\ id \in DOMAIN table
             /\ DOMAIN table' = DOMAIN table
             /\ \A f \in Fields :
                    table'[id][f] = IF f \in DOMAIN expense THEN expense[f]
                                    ELSE table[id][f]
             /\ \A j \in DOMAIN table \ {id} : table'[j] = table[j]
             /\ resp'.body = <<Record(id, table'[id])>>]_vars

\* An update of amount alone has succeeded on one of two rows.
C3_Witness ==
    /\ req.op = "update_expense"
    /\ resp.status = 200
    /\ DOMAIN req.expense = {"amount"}
    /\ Cardinality(DOMAIN table) = 2
    /\ table[req.id].amount = req.expense.amount

\* C4: get-by-id, update and delete on an id no row has answer 404 and leave
\* the table as it was.
C4_NotFound ==
    [][/\ Idle
       /\ req'.op \in {"get_expense_by_id", "update_expense", "delete_expense"}
       /\ req'.id \notin DOMAIN table
       => resp'.status = 404 /\ table' = table]_vars

\* An update has named an id that a table with a row does not hold.
C4_Witness ==
    /\ req.op = "update_expense"
    /\ req.id \notin DOMAIN table
    /\ resp.status = 404
    /\ DOMAIN req.expense # {}
    /\ table # << >>

\* C5: a successful delete removes the row with that id and no other row, and
\* a get-by-id of that id as the next request answers 404.
C5_DeleteThenGet ==
    [][/\ Handles("delete_expense") /\ resp'.status = 204 =>
            /\ req'.id \in DOMAIN table
            /\ DOMAIN table' = DOMAIN table \ {req'.id}
            /\ \A j \in DOMAIN table' : table'[j] = table[j]
       /\ Handles("get_expense_by_id") /\ req'.id = justDeleted =>
            resp'.status = 404]_vars

\* A get-by-id has followed the delete of its id, another row remaining.
C5_Witness ==
    /\ req.op = "get_expense_by_id"
    /\ req.id = justDeleted
    /\ resp.status = 404
    /\ table # << >>

\* C6: with a row in the table, summarize returns one (category, total) pair
\* per distinct category of the rows, each total the sum of amount over the
\* rows of the category and the totals adding up to the sum over the table;
\* with no row it signals the empty result.
C6_Summary ==
    req.op = "get_summary" =>
        IF table = << >> THEN resp.status = 404
        ELSE LET body == resp.body
                 cats == {table[i].category : i \in DOMAIN table}
                 of(c) == {i \in DOMAIN table : table[i].category = c}
             IN /\ resp.status = 200
                /\ Len(body) = Cardinality(cats)
                /\ {body[k].category : k \in DOMAIN body} = cats
                /\ \A k \in DOMAIN body :
                       body[k].total_amount =
                           Some(SumAmount(table, of(body[k].category)))
                /\ SumAmount(table, DOMAIN table) =
                       SumAmount([k \in DOMAIN body |->
                                     [amount |-> body[k].total_amount]],
                                 DOMAIN body)

\* C7: GET /expenses/summary goes to the summarize operation and, with a row
\* in the table, answers 200.
C7_SummaryRoute ==
    req.op = "http_get" /\ req.seg = "summary" =>
        /\ req.handler = "get_summary"
        /\ table # << >> => resp.status = 200

\* C8: list(category) returns the rows whose category equals the value
\* supplied, each once, and signals the empty result (404) when there is none.
C8_ListFilter ==
    req.op = "get_expenses" /\ req.category # NULL =>
        LET match == {i \in DOMAIN table : table[i].category = req.category}
            body == resp.body
        IN IF match = {} THEN resp.status = 404
           ELSE /\ resp.status = 200
                /\ Len(body) = Cardinality(match)
                /\ {body[k].id : k \in DOMAIN body} = match
                /\ \A k \in DOMAIN body : body[k] = Record(body[k].id, table[body[k].id])

\* C9: a create inserts one new row and leaves the others as they were, also
\* when a row with the same content exists; the row and the record returned
\* hold the title, category and amount supplied, and the date supplied or,
\* when it is omitted, the current date.
C9_Create ==
    [][Handles("create_expense") =>
          LET expense == req'.expense
              new == DOMAIN table' \ DOMAIN table
          IN /\ Cardinality(new) = 1
             /\ DOMAIN table \subseteq DOMAIN table'
             /\ \A j \in DOMAIN table : table'[j] = table[j]
             /\ \A id \in new :
                   /\ table'[id] =
                        [title |-> {expense.title},
                         category |-> {expense.category},
                         amount |-> {expense.amount},
                         date |-> IF expense.date = {} THEN {req'.today}
                                  ELSE expense.date]
                   /\ resp'.status = 201
                   /\ resp'.body = <<Record(id, table'[id])>>]_vars

\* A create with no date has stored a second row with the content of the
\* first, dated today.
C9_Witness ==
    /\ req.op = "create_expense"
    /\ req.expense.date = NULL
    /\ DOMAIN table = {1, 2}
    /\ table[1] = table[2]
    /\ table[2].date = {req.today}
    /\ resp.body = <<Record(2, table[2])>>
(***************************************************************************)
(* Concurrent requests on one row. Handlers run in the thread pool, each   *)
(* with a session of its own; a query, a commit (the flush of the pending  *)
(* statement and COMMIT) and a refresh are each one step on the database.  *)
(***************************************************************************)

\* Number of concurrent handlers.
NProcs == 2

Procs == 1..NProcs

\* The id of the row they work on: the first row created.
TheRow == NextRowid(<< >>)

\* The fields the concurrent updates set.
ConcFields == {"title", "amount"}

ConcRequests ==
    {[op |-> "delete_expense", id |-> TheRow]} \cup
    {[op |-> "update_expense", id |-> TheRow, expense |-> expense] :
        expense \in {u \in ExpenseUpdate : DOMAIN u \subseteq ConcFields}}

\* The rows create_expense stores.
CreatedRows ==
    {[title |-> {e.title}, category |-> {e.category}, amount |-> {e.amount},
      date |-> {d}] : e \in ExpenseCreate, d \in Dates}

\* The fields whose value setattr changed: the flush writes these columns.
Changed(row, expense) == {f \in DOMAIN expense : expense[f] # row[f]}

\* A variant that stores the loaded row again when the UPDATE finds none.
flush_update_upsert(t, expense_id, row, expense) ==
    IF Changed(row, expense) = {} THEN [table |-> t, status |-> 0]
    ELSE [table |-> Insert(t, expense_id, SetFields(row, expense)), status |-> 0]

\* db.commit() of update_expense: UPDATE ... SET the changed columns WHERE
\* id = expense_id. No statement when nothing changed; an UPDATE that matches
\* no row fails the request (status 500), status 0 lets it go on.
flush_update(t, expense_id, row, expense) ==
    IF Changed(row, expense) = {} THEN [table |-> t, status |-> 0]
    ELSE IF expense_id \notin DOMAIN t THEN [table |-> t, status |-> 500]
    ELSE [table |-> [t EXCEPT ![expense_id] =
                        [f \in Fields |-> IF f \in Changed(row, expense)
                                          THEN expense[f] ELSE @[f]]],
          status |-> 0]

\* db.commit() of delete_expense: DELETE ... WHERE id = expense_id; a DELETE
\* that matches no row only warns.
flush_delete(t, expense_id) ==
    IF expense_id \in DOMAIN t THEN Remove(t, expense_id) ELSE t

\* db.refresh(db_expense) and the response: the row as it is now; no row fails
\* the request.
refresh(t, expense_id) ==
    IF expense_id \notin DOMAIN t THEN [status |-> 500, body |-> <<>>]
    ELSE LET out == RowResponse(t, 200, expense_id)
         IN [status |-> out.status, body |-> out.body]

InitConc ==
    /\ \E row \in CreatedRows : table = Insert(<< >>, TheRow, row)
    /\ req = [op |-> "none"]
    /\ resp = [status |-> 0, body |-> <<>>]
    /\ created = {TheRow}
    /\ justDeleted = 0
    /\ creq \in [Procs -> ConcRequests]
    /\ pc = [p \in Procs |-> "read"]
    /\ loaded = [p \in Procs |-> NULL]
    /\ ret = [p \in Procs |-> [status |-> 0, body |-> <<>>]]
    /\ overwritten = [p \in Procs |-> {}]

NotFound(p) ==
    /\ pc' = [pc EXCEPT ![p] = "done"]
    /\ ret' = [ret EXCEPT ![p] = [status |-> 404, body |-> <<>>]]
    /\ UNCHANGED <<table, loaded, overwritten>>

\* The first query of update_expense and of delete_expense.
Read(p) ==
    /\ pc[p] = "read"
    /\ IF creq[p].id \notin DOMAIN table THEN NotFound(p)
       ELSE /\ loaded' = [loaded EXCEPT ![p] = table[creq[p].id]]
            /\ pc' = [pc EXCEPT ![p] = "commit"]
            /\ UNCHANGED <<table, ret, overwritten>>
    /\ UNCHANGED <<seqvars, creq>>

\* The handlers that have read the row and not yet refreshed it.
InWindow(p) == {q \in Procs \ {p} : pc[q] \in {"commit", "refresh"}}

UpdateCommit(p) ==
    /\ pc[p] = "commit"
    /\ creq[p].op = "update_expense"
    /\ LET out == flush_update(table, creq[p].id, loaded[p], creq[p].expense)
           wrote == IF out.table = table THEN {}
                    ELSE Changed(loaded[p], creq[p].expense)
       IN /\ table' = out.table
          /\ pc' = [pc EXCEPT ![p] = IF out.status = 0 THEN "refresh" ELSE "done"]
          /\ ret' = [ret EXCEPT ![p] = [status |-> out.status, body |-> <<>>]]
          /\ overwritten' = [q \in Procs |->
                                IF q \in InWindow(p) THEN overwritten[q] \cup wrote
                                ELSE overwritten[q]]
    /\ UNCHANGED <<seqvars, creq, loaded>>

UpdateRefresh(p) ==
    /\ pc[p] = "refresh"
    /\ ret' = [ret EXCEPT ![p] = refresh(table, creq[p].id)]
    /\ pc' = [pc EXCEPT ![p] = "done"]
    /\ UNCHANGED <<table, seqvars, creq, loaded, overwritten>>

DeleteCommit(p) ==
    /\ pc[p] = "commit"
    /\ creq[p].op = "delete_expense"
    /\ table' = flush_delete(table, creq[p].id)
    /\ ret' = [ret EXCEPT ![p] = [status |-> 204, body |-> <<>>]]
    /\ pc' = [pc EXCEPT ![p] = "done"]
    /\ UNCHANGED <<seqvars, creq, loaded, overwritten>>

NextConc ==
    \E p \in Procs :
        Read(p) \/ UpdateCommit(p) \/ UpdateRefresh(p) \/ DeleteCommit(p)

SpecConc == InitConc /\ [][NextConc]_vars

(***************************************************************************)
(* The claim on concurrent requests.                                       *)
(***************************************************************************)

Returned(p) ==
    /\ creq[p].op = "update_expense"
    /\ pc[p] = "done"
    /\ ret[p].status = 200

Deleted(p) ==
    /\ creq[p].op = "delete_expense"
    /\ pc[p] = "done"
    /\ ret[p].status = 204

\* C10 as stated: the record a successful update returns carries, for every
\* field present in the request, the value the request supplied; and once a
\* delete of the row has committed, no update leaves the row persisted.
C10_ReturnsOwnValues ==
    \A p \in DOMAIN pc :
        /\ Returned(p) =>
              \A f \in DOMAIN creq[p].expense :
                  ret[p].body[1][f] = creq[p].expense[f]
        /\ Deleted(p) => creq[p].id \notin DOMAIN table

\* C10 as amended: the record carries the value supplied for every field
\* present in the request that no other request has written between this
\* request's first read of the row and its refresh; and once a delete of the
\* row has committed, no update leaves the row persisted.
C10_ReturnsOwnValuesUnlessOverwritten ==
    \A p \in DOMAIN pc :
        /\ Returned(p) =>
              \A f \in DOMAIN creq[p].expense \ overwritten[p] :
                  ret[p].body[1][f] = creq[p].expense[f]
        /\ Deleted(p) => creq[p].id \notin DOMAIN table

\* An update has returned what another update wrote to the amount it set, and
\* its own title.
C10_Witness ==
    \E p \in DOMAIN pc :
        /\ Returned(p)
        /\ DOMAIN creq[p].expense = {"title", "amount"}
        /\ "amount" \in overwritten[p]
        /\ ret[p].body[1].amount # creq[p].expense.amount
        /\ ret[p].body[1].title = creq[p].expense.title
====
